---------------------------- MODULE Spec2Model ----------------------------
(***************************************************************************)
(* DocuExplore (src/code_1.py): a Streamlit script that uploads a PDF to   *)
(* the Gemini file service, waits for it to become ACTIVE, asks for a      *)
(* summary, derives a title, searches Tavily for related articles and      *)
(* then answers questions in a chat.                                       *)
(*                                                                         *)
(* The script is executed top to bottom on every rerun; st.session_state   *)
(* survives between reruns.  An uncaught exception ends the rerun where it *)
(* is raised and keeps the session_state written so far.  Every blocking   *)
(* external call is one step of the model; between two reruns (pc =        *)
(* "idle") the user acts on the widgets.                                   *)
(*                                                                         *)
(* Strings are sequences of one-character strings.                         *)
(***************************************************************************)
EXTENDS Integers, Sequences, FiniteSets, TLC

VARIABLES
    uploaded_file,   \* st.file_uploader value: NoDoc or the selected document
    user_question,   \* st.chat_input value of this rerun: NoQuestion or a question
    chat_history,    \* st.session_state.chat_history (Absent or a sequence)
    gemini_file,     \* st.session_state.gemini_file (Absent or a document)
    chat_session,    \* st.session_state.chat_session (Absent or a record)
    pdf_summary,     \* st.session_state.pdf_summary
    pdf_title,       \* st.session_state.pdf_title
    search_results,  \* st.session_state.search_results (Absent, None, payload)
    pc,              \* position of the script
    ui,              \* elements rendered by the current (or last) rerun
    query,           \* tavily_search: argument query
    max_retries,     \* tavily_search: argument max_retries
    attempt,         \* tavily_search: loop variable
    trace,           \* tavily_search: network calls and sleeps, in order
    search_ret,      \* tavily_search: returned value
    polls,           \* wait_for_file_active: get_file states and sleeps so far
    poll_ret,        \* wait_for_file_active: returned value
    tmp_files,       \* temporary artifacts on disk
    calls,           \* external calls issued by the script, in order
    reruns,          \* number of reruns started
    active_seen,     \* documents whose state was observed ACTIVE
    failed_doc,      \* document whose ingestion failed fatally, or NoDoc
    turn_failed,     \* a question's send_message has raised
    title_failed,    \* the title request has raised
    title_raw,       \* what the title request produced (Absent before it)
    poll_failed      \* wait_for_file_active has returned False

vars == <<uploaded_file, user_question, chat_history, gemini_file, chat_session,
          pdf_summary, pdf_title, search_results, pc, ui, query, max_retries,
          attempt, trace, search_ret, polls, poll_ret, tmp_files, calls,
          reruns, active_seen, failed_doc, turn_failed, title_failed,
          title_raw, poll_failed>>

session == <<chat_history, gemini_file, chat_session, pdf_summary, pdf_title,
             search_results>>

widgets == <<uploaded_file, user_question>>

searchFrame == <<query, max_retries, attempt, trace, search_ret>>

pollFrame == <<polls, poll_ret>>

history == <<active_seen, failed_doc, turn_failed, title_failed, title_raw,
             poll_failed>>

-----------------------------------------------------------------------------
(* Bounds *)

MaxRetriesBound == 3

MaxQueryLen == 2

MaxPolls == 2

MaxReruns == 4

NumDocs == 2

-----------------------------------------------------------------------------
(* Values *)

\* a key that st.session_state does not hold (or a value not yet returned)
Absent == <<>>

\* the value held under a key of st.session_state
Some(v) == <<v>>

Get(opt) == opt[1]

\* Python's None where a search payload is expected
None == [kind |-> "None"]

\* st.file_uploader returns None: no document is selected
NoDoc == 0

\* st.chat_input returns None: no question was submitted in this rerun
NoQuestion == <<>>

Docs == 1..NumDocs

Chars == {" ", "\n", "a"}

Queries == UNION {[1..n -> Chars] : n \in 0..MaxQueryLen}

DefaultMaxRetries == 3

PollInterval == 2

PayloadWithAnswer ==
    [kind |-> "payload",
     results |-> <<[title |-> "t1", url |-> "u1"], [title |-> "t2", url |-> "u2"]>>,
     answer |-> "answer"]

PayloadNoAnswer ==
    [kind |-> "payload",
     results |-> <<[title |-> "t1", url |-> "u1"]>>, answer |-> ""]

Payloads == {PayloadWithAnswer, PayloadNoAnswer}

\* "Untitled Document"
Untitled == <<"U", "n", "t", "i", "t", "l", "e", "d", " ", "D", "o", "c", "u", "m", "e", "n", "t">>

\* "Articles related to: "
QueryPrefix == <<"A", "r", "t", "i", "c", "l", "e", "s", " ", "r", "e", "l", "a", "t", "e", "d", " ", "t", "o", ":", " ">>

\* texts the model returns for the title prompt
TitleTexts == {<<" ", "T", "\n">>, <<>>}

Summaries == {<<"S">>}

Questions == {<<"q">>}

Replies == {<<"r">>}

-----------------------------------------------------------------------------
(* str.strip(), over the whitespace characters strings are built from here *)

IsSpace(c) == c \in {" ", "\t", "\n"}

RECURSIVE LStrip(_)
LStrip(s) ==
    IF s = <<>> THEN s
    ELSE IF IsSpace(Head(s)) THEN LStrip(Tail(s)) ELSE s

RECURSIVE RStrip(_)
RStrip(s) ==
    IF s = <<>> THEN s
    ELSE IF IsSpace(s[Len(s)]) THEN RStrip(SubSeq(s, 1, Len(s) - 1)) ELSE s

StripLeftOnly(s) == LStrip(s)

\* str.strip()
Strip(s) == RStrip(LStrip(s))

-----------------------------------------------------------------------------
(* tavily_search(query, max_retries) *)

\* one request to tavily_client.search and what it produced
Call(outcome, data) == [ev |-> outcome, secs |-> 0, data |-> data]

\* one time.sleep(n)
Sleep(n) == [ev |-> "sleep", secs |-> n, data |-> None]

IsBlankEmptyOnly(q) == q = <<>>

\* line 54: not query.strip()
IsBlank(q) == Strip(q) = <<>>

BackoffLinear(a) == 2 * a

\* line 67: 2 ** attempt
Backoff(a) == 2 ^ a

IsLastAttemptOffByOne(a, m) == a = m

\* line 65: attempt == max_retries - 1
IsLastAttempt(a, m) == a = m - 1

ClassifyAllRetried(outcome) ==
    IF outcome = "ok" THEN "return" ELSE "retry"

\* lines 58-70: which branch of the try statement handles the outcome
Classify(outcome) ==
    CASE outcome = "ok" -> "return"
      [] outcome = "http" -> "retry"
      [] OTHER -> "fail"

\* lines 53-57: entry, blank check, first evaluation of range(max_retries)
TavilyCall ==
    /\ pc = "search_call"
    /\ attempt' = 0
    /\ trace' = <<>>
    /\ IF IsBlank(query)
         THEN /\ search_ret' = Some(None)
              /\ pc' = "search_return"
         ELSE IF 0 < max_retries
                THEN /\ search_ret' = Absent
                     /\ pc' = "search_attempt"
                ELSE /\ search_ret' = Some(None)
                     /\ pc' = "search_return"
    /\ UNCHANGED <<session, widgets, ui, query, max_retries, pollFrame,
                   tmp_files, calls, reruns, history>>

\* lines 58-62: the request succeeds and its payload is returned
TavilyOk(payload) ==
    /\ Classify("ok") = "return"
    /\ trace' = Append(trace, Call("ok", payload))
    /\ search_ret' = Some(payload)
    /\ pc' = "search_return"
    /\ UNCHANGED attempt

\* lines 63-67: requests.exceptions.HTTPError
TavilyRetry(outcome) ==
    /\ Classify(outcome) = "retry"
    /\ IF IsLastAttempt(attempt, max_retries)
         THEN /\ trace' = Append(trace, Call(outcome, None))
              /\ search_ret' = Some(None)
              /\ pc' = "search_return"
              /\ UNCHANGED attempt
         ELSE /\ trace' = trace \o <<Call(outcome, None), Sleep(Backoff(attempt))>>
              /\ IF attempt + 1 < max_retries
                   THEN /\ attempt' = attempt + 1
                        /\ UNCHANGED <<search_ret, pc>>
                   ELSE \* range(max_retries) is exhausted: falls off the loop
                        /\ search_ret' = Some(None)
                        /\ pc' = "search_return"
                        /\ UNCHANGED attempt

\* lines 68-70: any other exception
TavilyFail(outcome) ==
    /\ Classify(outcome) = "fail"
    /\ trace' = Append(trace, Call(outcome, None))
    /\ search_ret' = Some(None)
    /\ pc' = "search_return"
    /\ UNCHANGED attempt

\* lines 57-70: one iteration of the loop, for each outcome of the request
TavilyAttempt ==
    /\ pc = "search_attempt"
    /\ \/ \E payload \in Payloads : TavilyOk(payload)
       \/ \E outcome \in {"http", "other"} :
            TavilyRetry(outcome) \/ TavilyFail(outcome)
    /\ UNCHANGED <<session, widgets, ui, query, max_retries, pollFrame,
                   tmp_files, calls, reruns, history>>

-----------------------------------------------------------------------------
(* tavily_search on its own, for every query and max_retries *)

SessionInit ==
    /\ uploaded_file = NoDoc
    /\ user_question = NoQuestion
    /\ chat_history = Absent
    /\ gemini_file = Absent
    /\ chat_session = Absent
    /\ pdf_summary = Absent
    /\ pdf_title = Absent
    /\ search_results = Absent
    /\ ui = {}
    /\ polls = <<>>
    /\ poll_ret = "Absent"
    /\ tmp_files = 0
    /\ calls = <<>>
    /\ reruns = 0
    /\ active_seen = {}
    /\ failed_doc = NoDoc
    /\ turn_failed = FALSE
    /\ title_failed = FALSE
    /\ title_raw = Absent
    /\ poll_failed = FALSE

SearchInit ==
    /\ SessionInit
    /\ pc = "search_call"
    /\ query \in Queries
    /\ max_retries \in 0..MaxRetriesBound
    /\ attempt = 0
    /\ trace = <<>>
    /\ search_ret = Absent

SearchNext == TavilyCall \/ TavilyAttempt

SearchSpec == SearchInit /\ [][SearchNext]_vars

-----------------------------------------------------------------------------
(* The script: one rerun, lines 158-232 *)

Ext(op, doc) == [op |-> op, doc |-> doc]

\* lines 218-232: the side panel, the last statements of a rerun
Col2(sr) ==
    IF sr # Absent
      THEN IF Get(sr) # None
             THEN {"articles"} \cup
                  (IF Get(sr).answer # "" THEN {"answer"} ELSE {})
             ELSE {"warning"}
      ELSE {"articles_info"}

\* an uncaught exception: the rerun stops, Streamlit shows the exception
Abort ==
    /\ pc' = "idle"
    /\ ui' = ui \cup {"exception"}

StartRerun ==
    /\ pc = "idle"
    /\ reruns < MaxReruns
    /\ reruns' = reruns + 1
    /\ pc' = "main"
    /\ ui' = {}
    /\ UNCHANGED <<session, searchFrame, pollFrame, tmp_files, calls, history>>

\* the user selects a file in st.file_uploader (line 160)
SelectFile ==
    /\ \E d \in Docs :
         /\ d # uploaded_file
         /\ uploaded_file' = d
    /\ user_question' = NoQuestion
    /\ StartRerun

\* the user removes the file from st.file_uploader (line 160)
RemoveFile ==
    /\ uploaded_file # NoDoc
    /\ uploaded_file' = NoDoc
    /\ user_question' = NoQuestion
    /\ StartRerun

\* the user submits a question in st.chat_input (line 200)
SubmitQuestion ==
    /\ "chat_input" \in ui
    /\ user_question' \in Questions
    /\ UNCHANGED uploaded_file
    /\ StartRerun

\* a rerun with the widgets as they are
Rerun ==
    /\ user_question' = NoQuestion
    /\ UNCHANGED uploaded_file
    /\ StartRerun

NeedsIngestionAlways == TRUE

\* line 166: 'gemini_file' not in st.session_state
NeedsIngestion == gemini_file = Absent

\* lines 160-166, and 215-232 when no file is selected
Main ==
    /\ pc = "main"
    /\ chat_history' = IF chat_history = Absent THEN Some(<<>>) ELSE chat_history
    /\ IF uploaded_file = NoDoc
         THEN /\ ui' = ui \cup {"info"} \cup Col2(search_results)
              /\ pc' = "idle"
         ELSE /\ pc' = IF NeedsIngestion THEN "upload" ELSE "render"
              /\ UNCHANGED ui
    /\ UNCHANGED <<gemini_file, chat_session, pdf_summary, pdf_title,
                   search_results, widgets, searchFrame, pollFrame, tmp_files,
                   calls, reruns, history>>

\* lines 22-31 and 168: upload_to_gemini
Upload ==
    /\ pc = "upload"
    /\ \/ \* tmp_file.write raises: the file was created with delete=False
          /\ tmp_files' = tmp_files + 1
          /\ Abort
          /\ UNCHANGED <<gemini_file, calls, failed_doc, polls>>
       \/ \* genai.upload_file raises; finally: os.unlink
          /\ calls' = Append(calls, Ext("upload", uploaded_file))
          /\ failed_doc' = uploaded_file
          /\ Abort
          /\ UNCHANGED <<gemini_file, tmp_files, polls>>
       \/ \* genai.upload_file returns; finally: os.unlink
          /\ calls' = Append(calls, Ext("upload", uploaded_file))
          /\ gemini_file' = Some(uploaded_file)
          /\ polls' = <<>>
          /\ pc' = "poll"
          /\ UNCHANGED <<ui, tmp_files, failed_doc>>
    /\ UNCHANGED <<chat_history, chat_session, pdf_summary, pdf_title,
                   search_results, widgets, searchFrame, poll_ret, reruns,
                   active_seen, turn_failed, title_failed, title_raw,
                   poll_failed>>

\* one genai.get_file and the state it reported
Status(state) == [ev |-> state, secs |-> 0]

\* line 37: time.sleep(2)
PollSleep == [ev |-> "sleep", secs |-> PollInterval]

Pending(p) == Len(SelectSeq(p, LAMBDA e : e.ev = "PROCESSING"))

\* states of a file other than PROCESSING
Terminal == {"ACTIVE", "FAILED", "STATE_UNSPECIFIED"}

PollResultNotPending(state) ==
    IF state # "PROCESSING" THEN "True" ELSE "False"

\* lines 39-42: the value returned for the state that ended the loop
PollResult(state) == IF state # "ACTIVE" THEN "False" ELSE "True"

\* lines 33-42: one genai.get_file and what wait_for_file_active does with it
Poll ==
    /\ pc = "poll"
    /\ calls' = Append(calls, Ext("poll", Get(gemini_file)))
    /\ \/ \* line 36-37: still PROCESSING, sleep and ask again
          /\ Pending(polls) < MaxPolls
          /\ polls' = polls \o <<Status("PROCESSING"), PollSleep>>
          /\ UNCHANGED <<pc, ui, poll_ret, active_seen, failed_doc, poll_failed>>
       \/ \* lines 39-42: the loop ends, st.error and False unless ACTIVE
          \E state \in Terminal :
             /\ polls' = Append(polls, Status(state))
             /\ active_seen' = IF state = "ACTIVE"
                                 THEN active_seen \cup {Get(gemini_file)}
                                 ELSE active_seen
             /\ poll_ret' = PollResult(state)
             /\ pc' = "poll_return"
             /\ IF PollResult(state) = "False"
                  THEN /\ ui' = ui \cup {"error"}
                       /\ failed_doc' = Get(gemini_file)
                       /\ poll_failed' = TRUE
                  ELSE UNCHANGED <<ui, failed_doc, poll_failed>>
       \/ \* genai.get_file raises
          /\ polls' = <<>>
          /\ Abort
          /\ UNCHANGED <<poll_ret, active_seen, failed_doc, poll_failed>>
    /\ UNCHANGED <<session, widgets, searchFrame, tmp_files, reruns, turn_failed,
                   title_failed, title_raw>>

PollSucceededAlways(ret) == TRUE

\* line 170: the condition of the if statement
PollSucceeded(ret) == ret = "True"

\* line 170: if wait_for_file_active(...)
PollReturn ==
    /\ pc = "poll_return"
    /\ pc' = IF PollSucceeded(poll_ret) THEN "start_chat" ELSE "render"
    /\ polls' = <<>>
    /\ poll_ret' = "Absent"
    /\ UNCHANGED <<session, widgets, ui, searchFrame, tmp_files, calls, reruns,
                   history>>

\* lines 171-178: model.start_chat
StartChat ==
    /\ pc = "start_chat"
    /\ chat_session' = Some([doc |-> Get(gemini_file), turns |-> 0])
    /\ calls' = Append(calls, Ext("startChat", Get(gemini_file)))
    /\ pc' = "summary"
    /\ UNCHANGED <<chat_history, gemini_file, pdf_summary, pdf_title,
                   search_results, widgets, ui, searchFrame, pollFrame,
                   tmp_files, reruns, history>>

Turn(cs) == Some([doc |-> Get(cs).doc, turns |-> Get(cs).turns + 1])

\* lines 179-181: the summary turn
Summary ==
    /\ pc = "summary"
    /\ calls' = Append(calls, Ext("summary", Get(chat_session).doc))
    /\ \/ /\ \E text \in Summaries : pdf_summary' = Some(text)
          /\ chat_session' = Turn(chat_session)
          /\ chat_history' = Some(<<>>)
          /\ pc' = "title"
          /\ UNCHANGED ui
       \/ \* send_message raises
          /\ Abort
          /\ UNCHANGED <<chat_session, pdf_summary, chat_history>>
    /\ UNCHANGED <<gemini_file, pdf_title, search_results, widgets, searchFrame,
                   pollFrame, tmp_files, reruns, history>>

GenerateTitleNoFallback(outcome) == Strip(outcome)

\* lines 44-51: generate_title_from_summary; the outcome is the text the
\* model returns, or "raise"
GenerateTitle(outcome) ==
    IF outcome = <<"raise">> THEN Untitled ELSE Strip(outcome)

\* line 187
SearchQuery(title) == QueryPrefix \o title

\* lines 185-188: title, query, and the call of tavily_search
Title ==
    /\ pc = "title"
    /\ \E outcome \in TitleTexts \cup {<<"raise">>} :
         /\ pdf_title' = Some(GenerateTitle(outcome))
         /\ query' = SearchQuery(GenerateTitle(outcome))
         /\ title_failed' = (outcome = <<"raise">>)
         /\ title_raw' = Some(outcome)
    /\ max_retries' = DefaultMaxRetries
    /\ calls' = calls \o <<Ext("title", Get(gemini_file)),
                           Ext("search", Get(gemini_file))>>
    /\ pc' = "search_call"
    /\ UNCHANGED <<chat_history, gemini_file, chat_session, pdf_summary,
                   search_results, widgets, ui, attempt, trace, search_ret,
                   pollFrame, tmp_files, reruns, active_seen, failed_doc,
                   turn_failed, poll_failed>>

\* line 188: the value tavily_search returned is stored
SearchReturn ==
    /\ pc = "search_return"
    /\ search_results' = search_ret
    /\ query' = <<>>
    /\ max_retries' = 0
    /\ attempt' = 0
    /\ trace' = <<>>
    /\ search_ret' = Absent
    /\ pc' = "render"
    /\ UNCHANGED <<chat_history, gemini_file, chat_session, pdf_summary,
                   pdf_title, widgets, ui, pollFrame, tmp_files, calls, reruns,
                   history>>

UserEntry(q) == [role |-> "user", content |-> q]

AssistantEntry(r) == [role |-> "assistant", content |-> r]

\* lines 190-203: success message, summary panel, chat input, user entry
Render ==
    /\ pc = "render"
    /\ IF pdf_summary = Absent
         THEN \* line 192: st.session_state.pdf_summary raises AttributeError
              /\ pc' = "idle"
              /\ ui' = ui \cup {"success", "exception"}
              /\ UNCHANGED chat_history
         ELSE /\ ui' = ui \cup {"success", "summary", "chat_input"}
                         \cup (IF pdf_title # Absent THEN {"title"} ELSE {})
              /\ IF user_question # NoQuestion
                   THEN /\ chat_history' =
                             Some(Append(Get(chat_history), UserEntry(user_question)))
                        /\ pc' = "question"
                   ELSE /\ pc' = "display"
                        /\ UNCHANGED chat_history
    /\ UNCHANGED <<gemini_file, chat_session, pdf_summary, pdf_title,
                   search_results, widgets, searchFrame, pollFrame, tmp_files,
                   calls, reruns, history>>

QuestionRaisesDropsSession ==
    /\ turn_failed' = TRUE
    /\ Abort
    /\ chat_session' = Absent
    /\ UNCHANGED chat_history

\* line 206: send_message raises, nothing catches it
QuestionRaises ==
    /\ turn_failed' = TRUE
    /\ Abort
    /\ UNCHANGED <<chat_history, chat_session>>

\* lines 205-207: the question is sent, the reply appended
Question ==
    /\ pc = "question"
    /\ IF chat_session = Absent
         THEN \* st.session_state.chat_session raises AttributeError
              /\ Abort
              /\ UNCHANGED <<chat_history, chat_session, calls, turn_failed>>
         ELSE /\ calls' = Append(calls, Ext("sendTurn", Get(chat_session).doc))
              /\ \/ /\ \E r \in Replies :
                         chat_history' =
                             Some(Append(Get(chat_history), AssistantEntry(r)))
                    /\ chat_session' = Turn(chat_session)
                    /\ pc' = "display"
                    /\ UNCHANGED <<ui, turn_failed>>
                 \/ QuestionRaises
    /\ UNCHANGED <<gemini_file, pdf_summary, pdf_title, search_results, widgets,
                   searchFrame, pollFrame, tmp_files, reruns, active_seen,
                   failed_doc, title_failed, title_raw, poll_failed>>

\* lines 209-213 and 218-232: the transcript and the side panel
Display ==
    /\ pc = "display"
    /\ ui' = ui \cup {"transcript"} \cup Col2(search_results)
    /\ pc' = "idle"
    /\ UNCHANGED <<session, widgets, searchFrame, pollFrame, tmp_files, calls,
                   reruns, history>>

Init ==
    /\ SessionInit
    /\ pc = "idle"
    /\ query = <<>>
    /\ max_retries = 0
    /\ attempt = 0
    /\ trace = <<>>
    /\ search_ret = Absent

Next ==
    \/ SelectFile
    \/ RemoveFile
    \/ SubmitQuestion
    \/ Rerun
    \/ Main
    \/ Upload
    \/ Poll
    \/ PollReturn
    \/ StartChat
    \/ Summary
    \/ Title
    \/ TavilyCall
    \/ TavilyAttempt
    \/ SearchReturn
    \/ Render
    \/ Question
    \/ Display

Spec == Init /\ [][Next]_vars

-----------------------------------------------------------------------------
(* Properties of tavily_search, checked under SearchSpec *)

\* the query is empty or consists of whitespace only
WhitespaceOnly(q) == \A i \in 1..Len(q) : q[i] \in {" ", "\t", "\n"}

\* the requests among the events of a trace
Attempts(t) == SelectSeq(t, LAMBDA e : e.ev # "sleep")

AllHttp(t) == \A i \in 1..Len(t) : t[i].ev = "http"

\* k HTTP errors, each followed by a sleep of 2^(its index), then the
\* successful request that served payload
RetriedThenOk(k, payload) ==
    [i \in 1..(2 * k + 1) |->
        IF i = 2 * k + 1 THEN Call("ok", payload)
        ELSE IF i % 2 = 1 THEN Call("http", None)
        ELSE Sleep(2 ^ ((i \div 2) - 1))]

\* C1: when the first k < max_retries requests raise an HTTP error and request
\* k+1 succeeds, tavily_search returns the payload of that request after
\* exactly k+1 requests, having slept 1, 2, ..., 2^(k-1) seconds, one sleep
\* between each two consecutive requests.
C1_RetryThenSuccess ==
    \A k \in 0..(max_retries - 1) :
        ( /\ pc = "search_return"
          /\ Len(Attempts(trace)) = k + 1
          /\ AllHttp(SubSeq(Attempts(trace), 1, k))
          /\ Attempts(trace)[k + 1].ev = "ok" )
        => /\ search_ret = Some(trace[Len(trace)].data)
           /\ search_ret # Some(None)
           /\ trace = RetriedThenOk(k, Get(search_ret))

C1_Witness ==
    /\ pc = "search_return"
    /\ max_retries = 3
    /\ trace = <<Call("http", None), Sleep(1), Call("http", None), Sleep(2),
                 Call("ok", PayloadWithAnswer)>>
    /\ search_ret = Some(PayloadWithAnswer)

\* C2: for a non-blank query tavily_search never issues more than max_retries
\* requests; when every request raised an HTTP error it returns None after
\* exactly max_retries requests, and no sleep follows the last of them.
C2_BoundedAttempts ==
    ~WhitespaceOnly(query) =>
        /\ Len(Attempts(trace)) <= max_retries
        /\ (pc = "search_return" /\ AllHttp(Attempts(trace))) =>
              /\ search_ret = Some(None)
              /\ Len(Attempts(trace)) = max_retries
              /\ trace # <<>> => trace[Len(trace)].ev = "http"

C2_Witness ==
    /\ pc = "search_return"
    /\ max_retries = 3
    /\ trace = <<Call("http", None), Sleep(1), Call("http", None), Sleep(2),
                 Call("http", None)>>
    /\ search_ret = Some(None)

\* C3: an error that is not an HTTP error, at whatever attempt it occurs, ends
\* tavily_search at once with None: no request and no sleep follow it.
C3_FailFast ==
    \A i \in 1..Len(trace) :
        trace[i].ev = "other" =>
            /\ i = Len(trace)
            /\ pc = "search_return"
            /\ search_ret = Some(None)

C3_Witness ==
    /\ pc = "search_return"
    /\ trace = <<Call("http", None), Sleep(1), Call("other", None)>>
    /\ search_ret = Some(None)

\* C4: for an empty or whitespace-only query tavily_search returns None
\* without any request and without sleeping, whatever max_retries is.
C4_BlankQuery ==
    WhitespaceOnly(query) =>
        /\ trace = <<>>
        /\ pc # "search_attempt"
        /\ pc = "search_return" => search_ret = Some(None)

C4_Witness ==
    /\ pc = "search_return"
    /\ query = <<" ", " ">>
    /\ max_retries = 3
    /\ trace = <<>>
    /\ search_ret = Some(None)

-----------------------------------------------------------------------------
(* Properties of the session, checked under Spec *)

\* READY: ingestion has completed, every derived value is stored
Ready ==
    /\ chat_session # Absent
    /\ pdf_summary # Absent
    /\ pdf_title # Absent
    /\ search_results # Absent

\* how often the script issued op for document d
Count(op, d) == Len(SelectSeq(calls, LAMBDA c : c = Ext(op, d)))

\* C5: selecting another document while the session is READY clears the chat
\* history, the summary, the title and the search results and starts the
\* upload of the new document.
C5_ReuploadResets ==
    [][ ( /\ pc = "main"
          /\ Ready
          /\ uploaded_file # NoDoc
          /\ uploaded_file # Get(gemini_file) )
        => /\ pc' = "upload"
           /\ chat_history' = Some(<<>>)
           /\ pdf_summary' = Absent
           /\ pdf_title' = Absent
           /\ search_results' = Absent ]_vars

\* FAILED: the ingestion of the selected document has failed fatally
Failed == failed_doc # NoDoc /\ uploaded_file = failed_doc

\* C6: once the session is FAILED for the selected document it stays so: no
\* step issues another external call, success is not reported, and no
\* conversation, summary, title or search result exists.
C6_FailedAbsorbing ==
    [][ Failed =>
          /\ calls' = calls
          /\ Failed' =>
                /\ "success" \notin ui'
                /\ chat_session' = Absent
                /\ pdf_summary' = Absent
                /\ pdf_title' = Absent
                /\ search_results' = Absent ]_vars

\* C7: a question is sent only to the conversation of a document that was
\* observed ACTIVE and whose conversation was started before; that
\* conversation is the one the session still holds; start_chat is called at
\* most once per document.
C7_QuestionsNeedActiveSession ==
    /\ \A i \in 1..Len(calls) :
          calls[i].op = "sendTurn" =>
              /\ calls[i].doc \in active_seen
              /\ \E j \in 1..(i - 1) : calls[j] = Ext("startChat", calls[i].doc)
              /\ chat_session # Absent
              /\ Get(chat_session).doc = calls[i].doc
              /\ gemini_file = Some(calls[i].doc)
    /\ \A d \in Docs : Count("startChat", d) <= 1

C7_Witness ==
    /\ pc = "idle"
    /\ \E d \in Docs : Count("sendTurn", d) = 2 /\ Count("startChat", d) = 1
    /\ turn_failed

\* C8: for one document the summary request, the title generation and the
\* search are each executed at most once, whatever reruns follow.
C8_DerivedAtMostOnce ==
    \A d \in Docs :
        /\ Count("summary", d) <= 1
        /\ Count("title", d) <= 1
        /\ Count("search", d) <= 1

C8_Witness ==
    /\ pc = "idle"
    /\ reruns >= 4
    /\ turn_failed
    /\ "chat_input" \in ui
    /\ gemini_file = Some(uploaded_file)
    /\ Count("summary", uploaded_file) = 1
    /\ Count("title", uploaded_file) = 1
    /\ Count("search", uploaded_file) = 1

\* C9: when send_message raises for a question, the session stays READY with
\* the conversation, summary, title and search results as they were and the
\* question input still shown; a question submitted after such a failure is
\* sent to the same conversation and its reply is appended to the history.
C9_TurnFailureIsLocal ==
    [][ /\ (pc = "question" /\ pc' = "idle") =>
              /\ Ready'
              /\ "chat_input" \in ui'
              /\ UNCHANGED <<gemini_file, chat_session, pdf_summary, pdf_title,
                             search_results>>
        /\ (turn_failed /\ pc = "render" /\ user_question # NoQuestion) =>
              pc' = "question"
        /\ (turn_failed /\ pc = "question") =>
              /\ chat_session # Absent
              /\ calls' = Append(calls, Ext("sendTurn", Get(chat_session).doc))
              /\ pc' = "display" =>
                    /\ Len(Get(chat_history')) = Len(Get(chat_history)) + 1
                    /\ SubSeq(Get(chat_history'), 1, Len(Get(chat_history)))
                          = Get(chat_history)
                    /\ Get(chat_history')[Len(Get(chat_history'))].role
                          = "assistant" ]_vars

C9_Witness ==
    /\ pc = "display"
    /\ turn_failed
    /\ Len(Get(chat_history)) = 3
    /\ Get(chat_history)[1].role = "user"
    /\ Get(chat_history)[2].role = "user"
    /\ Get(chat_history)[3].role = "assistant"

Enriching == {"title", "search_call", "search_attempt", "search_return"}

\* the last request of the search did not succeed, or there was none
SearchFailed(t) ==
    Attempts(t) = <<>> \/ Attempts(t)[Len(Attempts(t))].ev # "ok"

\* C10: once the summary is stored the session reaches READY whatever the
\* title request and the search do: a failed title request gives "Untitled
\* Document" and the search is called with the query built from the title; a
\* failed search gives None as search results; no exception is raised on the
\* way and the question input is shown afterwards.
C10_EnrichmentBestEffort ==
    /\ [](/\ (pdf_summary # Absent /\ pc \notin Enriching) => Ready
          /\ pc \in Enriching => "exception" \notin ui
          /\ (title_failed /\ pdf_title # Absent) => pdf_title = Some(Untitled)
          /\ pc \in Enriching \ {"title"} =>
                /\ query = QueryPrefix \o Get(pdf_title)
                /\ ~WhitespaceOnly(query)
          /\ (pc = "search_return" /\ SearchFailed(trace)) =>
                search_ret = Some(None))
    /\ [][ /\ pc = "title" => pc' = "search_call"
           /\ pc = "search_call" => pc' = "search_attempt"
           /\ pc = "search_return" =>
                 /\ search_results' = search_ret
                 /\ pc' = "render"
           /\ (pc = "render" /\ pdf_summary # Absent) =>
                 /\ "chat_input" \in ui'
                 /\ "exception" \notin ui' ]_vars

C10_Witness ==
    /\ pc = "idle"
    /\ title_failed
    /\ pdf_title = Some(Untitled)
    /\ search_results = Some(None)
    /\ "chat_input" \in ui
    /\ "warning" \in ui
    /\ "exception" \notin ui

-----------------------------------------------------------------------------
(* Properties of generate_title_from_summary *)

\* title is text without its leading and trailing whitespace, and nothing
\* else was removed
StrippedOf(title, text) ==
    /\ title # <<>> => ~IsSpace(title[1]) /\ ~IsSpace(title[Len(title)])
    /\ \E i \in 0..Len(text) :
          /\ i + Len(title) <= Len(text)
          /\ SubSeq(text, i + 1, i + Len(title)) = title
          /\ WhitespaceOnly(SubSeq(text, 1, i))
          /\ WhitespaceOnly(SubSeq(text, i + Len(title) + 1, Len(text)))

\* C11: generate_title_from_summary returns "Untitled Document" and raises
\* nothing when the generation request raises; when the request succeeds it
\* returns the generated text without its surrounding whitespace.
C11_TitleFallback ==
    /\ title_raw # Absent =>
          /\ pdf_title # Absent
          /\ IF title_raw = Some(<<"raise">>)
               THEN pdf_title = Some(Untitled)
               ELSE StrippedOf(Get(pdf_title), Get(title_raw))
    /\ pc = "search_call" => title_raw # Absent /\ "exception" \notin ui

C11_Witness ==
    /\ pc = "search_call"
    /\ title_raw = Some(<<"raise">>)
    /\ pdf_title = Some(Untitled)
    /\ pdf_summary \in {Some(text) : text \in Summaries}

C11_WitnessStripped ==
    /\ pc = "search_call"
    /\ title_raw = Some(<<" ", "T", "\n">>)
    /\ pdf_title = Some(<<"T">>)

-----------------------------------------------------------------------------
(* Properties of a question, of the temporary file and of the transcript *)

\* C12: a rerun for a question submitted in READY appends the user entry and
\* then one assistant entry to the chat history, keeping the earlier entries,
\* issues exactly one send_message and no other external call, leaves summary,
\* title and search results as they are and leaves the session READY.
C12_QuestionAppendsOneExchange ==
    [][ (Ready /\ user_question # NoQuestion) =>
          /\ UNCHANGED <<pdf_summary, pdf_title, search_results>>
          /\ Ready'
          /\ pc = "render" =>
                /\ chat_history' =
                      Some(Append(Get(chat_history), UserEntry(user_question)))
                /\ calls' = calls
                /\ pc' = "question"
          /\ pc = "question" =>
                /\ calls' = Append(calls, Ext("sendTurn", Get(chat_session).doc))
                /\ \E r \in Replies :
                      chat_history' =
                          Some(Append(Get(chat_history), AssistantEntry(r)))
          /\ pc \notin {"render", "question"} =>
                /\ calls' = calls
                /\ chat_history' = chat_history ]_vars

\* C13: whenever upload_to_gemini has finished, by returning or by raising,
\* no temporary file it created is left.
C13_TempFileRemoved == tmp_files = 0

\* the entries are user, assistant, user, assistant, ...
Alternates(h) ==
    /\ Len(h) % 2 = 0
    /\ \A i \in 1..Len(h) :
          h[i].role = IF i % 2 = 1 THEN "user" ELSE "assistant"

\* C16: at the end of every rerun the chat history has even length and
\* alternates user, assistant, starting with user, and holds one exchange for
\* every question turn of the conversation (its first turn is the summary).
C16_TranscriptAlternates ==
    (pc = "idle" /\ chat_history # Absent) =>
        /\ Alternates(Get(chat_history))
        /\ Ready => Len(Get(chat_history)) = 2 * (Get(chat_session).turns - 1)

-----------------------------------------------------------------------------
(* Properties of wait_for_file_active *)

\* p is n times PROCESSING, each followed by a sleep of two seconds
PendingRounds(p, n) ==
    /\ Len(p) = 2 * n
    /\ \A i \in 1..n :
          /\ p[2 * i - 1] = [ev |-> "PROCESSING", secs |-> 0]
          /\ p[2 * i] = [ev |-> "sleep", secs |-> 2]

\* C14: when the file is reported PROCESSING n times and then in another
\* state, wait_for_file_active returns after n + 1 get_file calls and n
\* sleeps of two seconds; it does not return while the last state seen is
\* PROCESSING, returns True exactly when that other state is ACTIVE, and
\* otherwise returns False after showing an error.
C14_PollReturns ==
    /\ pc = "poll" => poll_ret = "Absent" /\ PendingRounds(polls, Pending(polls))
    /\ pc = "poll_return" =>
          /\ Len(polls) = 2 * Pending(polls) + 1
          /\ PendingRounds(SubSeq(polls, 1, Len(polls) - 1), Pending(polls))
          /\ polls[Len(polls)].ev \notin {"PROCESSING", "sleep"}
          /\ poll_ret \in {"True", "False"}
          /\ poll_ret = "True" <=> polls[Len(polls)].ev = "ACTIVE"
          /\ poll_ret = "False" => "error" \in ui
          /\ poll_ret = "True" => "error" \notin ui

C14_Witness ==
    /\ pc = "poll_return"
    /\ polls = <<[ev |-> "PROCESSING", secs |-> 0], [ev |-> "sleep", secs |-> 2],
                 [ev |-> "PROCESSING", secs |-> 0], [ev |-> "sleep", secs |-> 2],
                 [ev |-> "STATE_UNSPECIFIED", secs |-> 0]>>
    /\ poll_ret = "False"
    /\ "error" \in ui

-----------------------------------------------------------------------------
(* Order of the external calls *)

\* position of a call in the chain of one document
Rank(op) ==
    CASE op = "upload" -> 1
      [] op = "poll" -> 2
      [] op = "startChat" -> 3
      [] op = "summary" -> 4
      [] op = "title" -> 5
      [] op = "search" -> 6
      [] op = "sendTurn" -> 7

\* C15: the external calls for one document come in the order upload, poll,
\* start_chat, summary, title, search, questions, each one after the step
\* before it was issued; no question is sent before the search results are
\* stored; a call after the upload is issued only for a file whose upload
\* returned, and none at all once wait_for_file_active has returned False; an
\* upload that raises ends the rerun.
C15_IngestionOrder ==
    /\ [](/\ \A i, j \in 1..Len(calls) :
                (i < j /\ calls[i].doc = calls[j].doc) =>
                    Rank(calls[i].op) <= Rank(calls[j].op)
          /\ \A j \in 1..Len(calls) :
                Rank(calls[j].op) > 1 =>
                    \E i \in 1..(j - 1) :
                        /\ calls[i].doc = calls[j].doc
                        /\ Rank(calls[i].op) = Rank(calls[j].op) - 1
          /\ (\E i \in 1..Len(calls) : calls[i].op = "sendTurn") =>
                search_results # Absent)
    /\ [][ /\ calls' # calls =>
                /\ Len(calls') > Len(calls)
                /\ SubSeq(calls', 1, Len(calls)) = calls
                /\ \A i \in (Len(calls) + 1)..Len(calls') :
                      calls'[i].op # "upload" =>
                         /\ gemini_file = Some(calls'[i].doc)
                         /\ ~poll_failed
           /\ poll_failed => calls' = calls
           /\ (pc = "upload" /\ gemini_file' = Absent) => pc' = "idle" ]_vars

C15_Witness ==
    /\ pc = "idle"
    /\ calls = <<Ext("upload", 1), Ext("upload", 1), Ext("poll", 1),
                 Ext("startChat", 1), Ext("summary", 1), Ext("title", 1),
                 Ext("search", 1), Ext("sendTurn", 1)>>
    /\ failed_doc = 1

C15_WitnessPollFailed ==
    /\ pc = "idle"
    /\ poll_failed
    /\ reruns >= 2
    /\ calls = <<Ext("upload", 1), Ext("poll", 1)>>

=============================================================================
